---- MODULE Spec2Model ----
(***************************************************************************)
(* Model of chat_app.py (src/app.py): the ChatApp session, its Tk text     *)
(* widget (the in-memory Transcript), the history file chat_history.txt    *)
(* (the PersistentLog), the files picked in the save/load dialogs and the  *)
(* timer queue of root.after.                                              *)
(*                                                                         *)
(* Text is a sequence of characters.  A character is a one-character       *)
(* string; the fixed pieces of text the program composes (line prefixes,   *)
(* fixed replies, notice texts) are written as single atoms, which are     *)
(* never whitespace.  Timestamps are left out of the atoms.                *)
(***************************************************************************)
EXTENDS Integers, Sequences, FiniteSets, TLC

VARIABLES running, display, fs, pending, bot_enabled, faults, steps, last

vars == <<running, display, fs, pending, bot_enabled, faults, steps, last>>

----------------------------------------------------------------------------
(* Bounds of the model *)

\* at most this many user actions (handlers run, windows opened and closed) in one behaviour
MaxSteps == 4
\* at most this many reads and writes of files fail in one behaviour
MaxFaults == 1
\* at most this many user actions in a behaviour that is checked for progress
MaxFairSteps == 3
\* the longest message replied to is this much longer than the echo limit
MaxOver == 5

----------------------------------------------------------------------------
(* Text *)

NL == "\n"

Whitespace == {" ", "\n", "\t"}

RECURSIVE lstrip(_)
lstrip(s) == IF s = <<>> THEN <<>>
             ELSE IF Head(s) \in Whitespace THEN lstrip(Tail(s)) ELSE s

RECURSIVE rstrip(_)
rstrip(s) == IF s = <<>> THEN <<>>
             ELSE IF s[Len(s)] \in Whitespace THEN rstrip(SubSeq(s, 1, Len(s) - 1)) ELSE s

\* str.strip()
strip(s) == rstrip(lstrip(s))

\* str.lower(), on the letters the inputs use
lower_char(c) == CASE c = "H" -> "h"
                   [] c = "I" -> "i"
                   [] c = "O" -> "o"
                   [] c = "K" -> "k"
                   [] c = "T" -> "t"
                   [] c = "R" -> "r"
                   [] c = "S" -> "s"
                   [] c = "M" -> "m"
                   [] OTHER -> c

lower(s) == [i \in 1..Len(s) |-> lower_char(s[i])]

\* sub in s
contains(s, sub) == \E i \in 0..(Len(s) - Len(sub)) : SubSeq(s, i + 1, i + Len(sub)) = sub

\* s.endswith(suffix)
endswith(s, suffix) == Len(s) >= Len(suffix) /\ SubSeq(s, Len(s) - Len(suffix) + 1, Len(s)) = suffix

\* "abc" as a sequence of characters
W_hello == <<"h", "e", "l", "l", "o">>
W_hi == <<"h", "i">>
W_salom == <<"s", "a", "l", "o", "m">>
W_ism == <<"i", "s", "m">>
W_who == <<"w", "h", "o", " ", "a", "r", "e", " ", "y", "o", "u">>
W_tayyor == <<"t", "a", "y", "y", "o", "r">>
W_ready == <<"r", "e", "a", "d", "y">>
W_rahmat == <<"r", "a", "h", "m", "a", "t">>
W_thanks == <<"t", "h", "a", "n", "k", "s">>

EchoLimit == 80
EchoKeep == 77

\* the message is cut when it is as long as the limit
echo_text_cut_at_limit(message) ==
    IF Len(message) < EchoLimit THEN message
    ELSE SubSeq(message, 1, EchoKeep) \o <<".", ".", ".">>

\* message if len(message) <= 80 else message[:77] + "..."
echo_text(message) ==
    IF Len(message) <= EchoLimit THEN message
    ELSE SubSeq(message, 1, EchoKeep) \o <<".", ".", ".">>

\* the gratitude rule is tried before the others
generate_bot_reply_gratitude_first(message) ==
    LET msg == lower(message) IN
    IF contains(msg, W_rahmat) \/ contains(msg, W_thanks)
        THEN <<"Marhamat!">>
    ELSE IF contains(msg, W_hello) \/ contains(msg, W_hi) \/ contains(msg, W_salom)
        THEN <<"Salom! Qanday yordam bera olaman?">>
    ELSE IF contains(msg, W_ism) \/ contains(lower(msg), W_who)
        THEN <<"Men oddiy o'quvchi botman.">>
    ELSE IF contains(msg, W_tayyor) \/ contains(msg, W_ready)
        THEN <<"Ha, tayyorman.">>
    ELSE IF endswith(msg, <<"?">>)
        THEN <<"Bu yaxshi savol">>
    ELSE <<"Siz aytdingiz: ">> \o echo_text(message)

\* ChatApp.generate_bot_reply
generate_bot_reply(message) ==
    LET msg == lower(message) IN
    IF contains(msg, W_hello) \/ contains(msg, W_hi) \/ contains(msg, W_salom)
        THEN <<"Salom! Qanday yordam bera olaman?">>
    ELSE IF contains(msg, W_ism) \/ contains(lower(msg), W_who)
        THEN <<"Men oddiy o'quvchi botman.">>
    ELSE IF contains(msg, W_tayyor) \/ contains(msg, W_ready)
        THEN <<"Ha, tayyorman.">>
    ELSE IF contains(msg, W_rahmat) \/ contains(msg, W_thanks)
        THEN <<"Marhamat!">>
    ELSE IF endswith(msg, <<"?">>)
        THEN <<"Bu yaxshi savol">>
    ELSE <<"Siz aytdingiz: ">> \o echo_text(message)

----------------------------------------------------------------------------
(* Files *)

HISTORY_FILE == "chat_history.txt"

\* a second location the file dialogs can return
OTHER_FILE == "notes.txt"

Paths == {HISTORY_FILE, OTHER_FILE}

\* the file dialogs return "" when they are cancelled
Cancelled == ""

AbsentFile == [exists |-> FALSE, data |-> <<>>]

File(data) == [exists |-> TRUE, data |-> data]

\* the file is opened with 'w' where 'a' is meant
write_append_truncating(files, path, text) == [files EXCEPT ![path] = File(text)]

\* the text is written at the start of the file
write_append_at_start(files, path, text) == [files EXCEPT ![path] = File(text \o @.data)]

\* open(path, 'a') ... f.write(text)
write_append(files, path, text) == [files EXCEPT ![path] = File(@.data \o text)]

\* open(path, 'w') ... f.write(text)
write_truncate(files, path, text) == [files EXCEPT ![path] = File(text)]

----------------------------------------------------------------------------
(* Lines the program composes *)

user_line(message) == <<"You (ts): ">> \o message

bot_line(message) == <<"Bot (ts): ">> \o generate_bot_reply(message)

system_line(text) == <<"[ts] SYSTEM: ", text>>

SaveError == <<"[Save error: e]">>

LoadedPrevious == "Loaded previous chat history."
CouldNotLoad == "Could not load history: e"
LoadedFrom == "Loaded history from: basename"
DisplayCleared == "Display cleared. Chat history file remains unchanged."

----------------------------------------------------------------------------
(* ChatApp.append_text and ChatApp.append_system, as functions of the      *)
(* widget text and the files: s is [display, fs]; wok tells whether the    *)
(* write to HISTORY_FILE succeeds.                                         *)

\* chat_display.insert(tk.END, text + "\n") inserts at the start instead
insert_at_start(shown, text) == text \o <<NL>> \o shown

\* chat_display.insert(tk.END, text + "\n")
insert_at_end(shown, text) == shown \o text \o <<NL>>

\* the except branch passes
on_save_error_silent(shown) == shown

\* the except branch of the save: the error is shown in the widget
on_save_error(shown) == insert_at_end(shown, SaveError)

\* the file is written before the widget, and a failed write leaves the text out
append_text_save_first(s, text, save, wok) ==
    IF save /\ ~wok
    THEN [display |-> on_save_error(s.display), fs |-> s.fs]
    ELSE [display |-> insert_at_end(s.display, text),
          fs |-> IF save THEN write_append(s.fs, HISTORY_FILE, text \o <<NL>>) ELSE s.fs]

append_text(s, text, save, wok) ==
    LET shown == insert_at_end(s.display, text) IN
    IF save
    THEN IF wok
         THEN [display |-> shown, fs |-> write_append(s.fs, HISTORY_FILE, text \o <<NL>>)]
         ELSE [display |-> on_save_error(shown), fs |-> s.fs]
    ELSE [display |-> shown, fs |-> s.fs]

append_system(s, text, wok) == append_text(s, system_line(text), TRUE, wok)

----------------------------------------------------------------------------
(* What the last step was: the handler that ran, its inputs, and what the  *)
(* file system and the dialogs answered.                                   *)

Event(op) == [op |-> op, input |-> <<>>, path |-> "", confirmed |-> FALSE,
              rfail |-> FALSE, wfail |-> FALSE, wrote |-> FALSE, dialog |-> "none",
              line |-> <<>>, stale |-> FALSE, snapped |-> FALSE, snap |-> <<>>]

----------------------------------------------------------------------------
(* The handlers *)

HistData == fs[HISTORY_FILE].data

\* the outcomes open() can have: it succeeds (TRUE) or raises (FALSE)
Outcomes == IF faults < MaxFaults THEN BOOLEAN ELSE {TRUE}

\* a user action is taken while the budget lasts
Spend ==
    /\ steps < MaxSteps
    /\ steps' = steps + 1

\* the step is recorded, and the failures it met are counted
Record(event) ==
    /\ last' = event
    /\ faults' = faults + (IF event.rfail THEN 1 ELSE 0) + (IF event.wfail THEN 1 ELSE 0)

\* the files the working directory can hold before the run: no history, or
\* the history an earlier run has left
InitialHistory == {AbsentFile, File(user_line(<<"o", "k">>) \o <<NL>>)}
InitialOther == {File(<<" ", "x", NL>>)}

Init ==
    /\ running = FALSE
    /\ display = <<>>
    /\ pending = <<>>
    /\ bot_enabled = TRUE
    /\ faults = 0
    /\ steps = 0
    /\ fs \in [Paths -> InitialHistory \cup InitialOther]
    /\ fs[HISTORY_FILE] \in InitialHistory
    /\ fs[OTHER_FILE] \in InitialOther
    /\ last = Event("none")

\* the notice is shown and the text that was read is dropped
seed_history_notice_only(files, rok, wok) ==
    LET s0 == [display |-> <<>>, fs |-> files] IN
    IF files[HISTORY_FILE].exists
    THEN IF rok
         THEN IF strip(files[HISTORY_FILE].data) # <<>>
              THEN append_system(s0, LoadedPrevious, wok)
              ELSE s0
         ELSE append_system(s0, CouldNotLoad, wok)
    ELSE s0

\* the text that was read is shown without the test "if data"
seed_history_no_empty_test(files, rok, wok) ==
    LET s0 == [display |-> <<>>, fs |-> files] IN
    IF files[HISTORY_FILE].exists
    THEN IF rok
         THEN append_text(append_system(s0, LoadedPrevious, wok),
                          strip(files[HISTORY_FILE].data) \o <<NL>>, FALSE, TRUE)
         ELSE append_system(s0, CouldNotLoad, wok)
    ELSE s0

\* ChatApp.__init__: the widgets are created, then the history is loaded
seed_history(files, rok, wok) ==
    LET s0 == [display |-> <<>>, fs |-> files] IN
    IF files[HISTORY_FILE].exists
    THEN IF rok
         THEN LET data == strip(files[HISTORY_FILE].data) IN
              IF data # <<>>
              THEN append_text(append_system(s0, LoadedPrevious, wok), data \o <<NL>>, FALSE, TRUE)
              ELSE s0
         ELSE append_system(s0, CouldNotLoad, wok)
    ELSE s0

ChatApp_init ==
    /\ running = FALSE
    /\ Spend
    /\ \E rok \in Outcomes, wok \in Outcomes :
        LET s1 == seed_history(fs, rok, wok)
            read == fs[HISTORY_FILE].exists
            noticed == s1.display # <<>>
        IN
        /\ running' = TRUE
        /\ display' = s1.display
        /\ fs' = s1.fs
        /\ pending' = <<>>
        /\ bot_enabled' = TRUE
        /\ Record([Event("init") EXCEPT
                      !.rfail = read /\ ~rok,
                      !.wfail = noticed /\ ~wok,
                      !.wrote = noticed /\ wok,
                      !.snapped = last.op = "exit" /\ last.snapped,
                      !.snap = IF last.op = "exit" /\ last.snapped THEN last.snap ELSE <<>>])

\* root.mainloop() returns when the window is closed and the process ends:
\* the widget text and the armed timers go with it
mainloop_exit ==
    /\ running = TRUE
    /\ Spend
    /\ running' = FALSE
    /\ display' = <<>>
    /\ pending' = <<>>
    /\ UNCHANGED <<fs, bot_enabled>>
    /\ Record([Event("exit") EXCEPT
                  !.snapped = last.op = "clear_display" /\ last.snapped,
                  !.snap = IF last.op = "clear_display" /\ last.snapped THEN last.snap ELSE <<>>])

\* the "Bot reply enabled" check button
bot_check ==
    /\ running = TRUE
    /\ Spend
    /\ bot_enabled' = ~bot_enabled
    /\ UNCHANGED <<running, display, fs, pending>>
    /\ Record(Event("bot_check"))

\* the inputs typed into the entry
Inputs == {<<>>, <<" ", " ">>, <<"H", "i">>, <<" ", "o", "k">>}

\* the text of the entry is taken as it is
entry_text_untrimmed(input) == input

\* self.input_var.get().strip()
entry_text(input) == strip(input)

\* what root.after holds for a message: the Bot line its lambda will append;
\* user is the User line of the send that armed it, stale tells that the
\* widget was cleared since
timer(message) == [line |-> bot_line(message), user |-> user_line(message), stale |-> FALSE]

\* the reply is armed in front of the timers that wait
timers_after_send_in_front(timers, enabled, message) ==
    IF enabled
    THEN <<timer(message)>> \o timers
    ELSE timers

\* the reply is armed whatever the check button says
timers_after_send_always(timers, enabled, message) ==
    Append(timers, timer(message))

\* root.after is called twice for one reply
timers_after_send_twice(timers, enabled, message) ==
    IF enabled
    THEN timers \o <<timer(message), timer(message)>>
    ELSE timers

\* if self.bot_enabled.get(): ... self.root.after(250, lambda: ...)
timers_after_send(timers, enabled, message) ==
    IF enabled
    THEN Append(timers, timer(message))
    ELSE timers

\* ChatApp.on_send
on_send(input) ==
    /\ running = TRUE
    /\ Spend
    /\ LET message == entry_text(input) IN
       IF message = <<>>
       THEN /\ UNCHANGED <<running, display, fs, pending, bot_enabled>>
            /\ Record([Event("on_send") EXCEPT !.input = input])
       ELSE /\ \E wok \in Outcomes :
                LET s1 == append_text([display |-> display, fs |-> fs], user_line(message), TRUE, wok) IN
                /\ display' = s1.display
                /\ fs' = s1.fs
                /\ pending' = timers_after_send(pending, bot_enabled, message)
                /\ UNCHANGED <<running, bot_enabled>>
                /\ Record([Event("on_send") EXCEPT
                              !.input = input, !.line = user_line(message),
                              !.wfail = ~wok, !.wrote = wok])

\* the lambda armed by root.after(250, ...) in on_send; timers of equal delay
\* fire in the order they were armed
after_callback ==
    /\ running = TRUE
    /\ pending # <<>>
    /\ UNCHANGED steps
    /\ \E wok \in Outcomes :
        LET s1 == append_text([display |-> display, fs |-> fs], Head(pending).line, TRUE, wok) IN
        /\ display' = s1.display
        /\ fs' = s1.fs
        /\ pending' = Tail(pending)
        /\ UNCHANGED <<running, bot_enabled>>
        /\ Record([Event("after_callback") EXCEPT
                      !.line = Head(pending).line, !.stale = Head(pending).stale,
                      !.wfail = ~wok, !.wrote = wok])

\* the timers that are armed when the widget is cleared: cancelled
timers_after_clear_cancelled(timers) == <<>>

\* the timers that are armed when the widget is cleared: clear_display leaves
\* them armed; stale marks those armed before the clear
timers_after_clear(timers) == [i \in 1..Len(timers) |-> [timers[i] EXCEPT !.stale = TRUE]]

\* ChatApp.clear_display; confirm is the answer to messagebox.askyesno
clear_display(confirm) ==
    /\ running = TRUE
    /\ Spend
    /\ IF confirm
       THEN /\ \E wok \in Outcomes :
                LET s1 == append_system([display |-> <<>>, fs |-> fs], DisplayCleared, wok) IN
                /\ display' = s1.display
                /\ fs' = s1.fs
                /\ pending' = timers_after_clear(pending)
                /\ UNCHANGED <<running, bot_enabled>>
                /\ Record([Event("clear_display") EXCEPT
                              !.confirmed = TRUE, !.wfail = ~wok, !.wrote = wok,
                              !.snapped = TRUE, !.snap = HistData])
       ELSE /\ UNCHANGED <<running, display, fs, pending, bot_enabled>>
            /\ Record(Event("clear_display"))

\* the history file is copied to the chosen file, not the text of the widget
save_history_as_from_store(filepath) ==
    /\ running = TRUE
    /\ Spend
    /\ IF filepath = Cancelled
       THEN /\ UNCHANGED <<running, display, fs, pending, bot_enabled>>
            /\ Record(Event("save_history_as"))
       ELSE \E wok \in Outcomes :
            /\ fs' = IF wok THEN write_truncate(fs, filepath, strip(HistData) \o <<NL>>) ELSE fs
            /\ UNCHANGED <<running, display, pending, bot_enabled>>
            /\ Record([Event("save_history_as") EXCEPT
                          !.path = filepath, !.wfail = ~wok, !.wrote = wok,
                          !.dialog = IF wok THEN "showinfo" ELSE "showerror"])

\* ChatApp.save_history_as; filepath is the answer of asksaveasfilename
save_history_as(filepath) ==
    /\ running = TRUE
    /\ Spend
    /\ IF filepath = Cancelled
       THEN /\ UNCHANGED <<running, display, fs, pending, bot_enabled>>
            /\ Record(Event("save_history_as"))
       ELSE \E wok \in Outcomes :
            LET content == display \o <<NL>> IN
            /\ fs' = IF wok THEN write_truncate(fs, filepath, strip(content) \o <<NL>>) ELSE fs
            /\ UNCHANGED <<running, display, pending, bot_enabled>>
            /\ Record([Event("save_history_as") EXCEPT
                          !.path = filepath, !.wfail = ~wok, !.wrote = wok,
                          !.dialog = IF wok THEN "showinfo" ELSE "showerror"])

\* ChatApp.load_history; filepath is the answer of askopenfilename
load_history(filepath) ==
    /\ running = TRUE
    /\ Spend
    /\ IF filepath = Cancelled
       THEN /\ UNCHANGED <<running, display, fs, pending, bot_enabled>>
            /\ Record(Event("load_history"))
       ELSE /\ \E rok \in Outcomes, wok \in Outcomes :
                LET opened == rok /\ fs[filepath].exists
                    content == strip(fs[filepath].data)
                    s0 == [display |-> display, fs |-> fs]
                    s1 == IF opened /\ content # <<>>
                          THEN append_text(append_system(s0, LoadedFrom, wok), content \o <<NL>>, FALSE, TRUE)
                          ELSE s0
                    noticed == opened /\ content # <<>>
                IN
                /\ display' = s1.display
                /\ fs' = s1.fs
                /\ UNCHANGED <<running, pending, bot_enabled>>
                /\ Record([Event("load_history") EXCEPT
                              !.path = filepath, !.rfail = ~opened,
                              !.wfail = noticed /\ ~wok, !.wrote = noticed /\ wok,
                              !.dialog = IF opened THEN "none" ELSE "showerror"])

Send == \E input \in Inputs : on_send(input)
Clear == \E confirm \in BOOLEAN : clear_display(confirm)
Save == \E filepath \in Paths \cup {Cancelled} : save_history_as(filepath)
Load == \E filepath \in Paths \cup {Cancelled} : load_history(filepath)

Next ==
    \/ ChatApp_init
    \/ mainloop_exit
    \/ bot_check
    \/ Send
    \/ after_callback
    \/ Clear
    \/ Save
    \/ Load

Spec == Init /\ [][Next]_vars

\* the Tk event loop runs every timer that is due: an armed reply fires
\* unless the process ends first
FairNext == Next /\ steps' <= MaxFairSteps

FairSpec == Init /\ [][FairNext]_vars /\ WF_vars(after_callback)

----------------------------------------------------------------------------
(* The reply generator on its own: a message is typed, generate_bot_reply   *)
(* is applied to it.                                                        *)

\* pieces the typed messages are put together from
Pieces == {<<>>, W_hello, W_hi, W_salom, W_ism, W_who, W_tayyor, W_ready, W_rahmat, W_thanks,
           <<"?">>, <<"x">>, <<" ">>, <<"H", "I">>, <<"T", "h", "a", "n", "k", "s">>,
           <<"I", "S", "M">>, <<"R", "e", "a", "d", "y">>}

Digits == <<"0", "1", "2", "3", "4", "5", "6", "7", "8", "9">>

\* a message of n characters that differ from their neighbours
Long(n) == [i \in 1..n |-> Digits[(i % 10) + 1]]

LongMessages ==
    UNION {{Long(n), SubSeq(Long(n), 1, n - 1) \o <<"?">>, SubSeq(Long(n), 1, n - 2) \o W_hi}
              : n \in (EchoKeep - 1)..(EchoLimit + MaxOver)}

\* on_send passes the trimmed text of the entry, which is not empty
ReplyInputs ==
    {m \in {a \o b : a \in Pieces, b \in Pieces} \cup LongMessages : m # <<>> /\ strip(m) = m}

ReplyInit ==
    /\ running = TRUE
    /\ display = <<>>
    /\ pending = <<>>
    /\ bot_enabled = TRUE
    /\ faults = 0
    /\ steps = 0
    /\ fs = [path \in Paths |-> AbsentFile]
    /\ \E m \in ReplyInputs : last = [Event("typed") EXCEPT !.input = m]

\* reply = self.generate_bot_reply(message)
reply_computed ==
    /\ last.op = "typed"
    /\ last' = [Event("generate_bot_reply") EXCEPT
                  !.input = last.input, !.line = generate_bot_reply(last.input)]
    /\ UNCHANGED <<running, display, fs, pending, bot_enabled, faults, steps>>

ReplyNext == reply_computed

ReplySpec == ReplyInit /\ [][ReplyNext]_vars

----------------------------------------------------------------------------
(* Vocabulary of the properties *)

IsPrefix(a, b) == Len(a) <= Len(b) /\ SubSeq(b, 1, Len(a)) = a

\* what b holds after its first Len(a) characters
Rest(a, b) == SubSeq(b, Len(a) + 1, Len(b))

\* the lines of a text: the pieces its newlines end, and what follows the last one
RECURSIVE SplitLines(_, _)
SplitLines(text, cur) ==
    IF text = <<>> THEN (IF cur = <<>> THEN <<>> ELSE <<cur>>)
    ELSE IF Head(text) = NL THEN <<cur>> \o SplitLines(Tail(text), <<>>)
    ELSE SplitLines(Tail(text), Append(cur, Head(text)))

Lines(text) == SplitLines(text, <<>>)

RECURSIVE NonEmpty(_)
NonEmpty(ls) == IF ls = <<>> THEN <<>>
                ELSE IF Head(ls) = <<>> THEN NonEmpty(Tail(ls))
                ELSE <<Head(ls)>> \o NonEmpty(Tail(ls))

\* a occurs in b, in order, not necessarily side by side
RECURSIVE IsSubseq(_, _)
IsSubseq(a, b) ==
    IF a = <<>> THEN TRUE
    ELSE IF b = <<>> THEN FALSE
    ELSE IF Head(a) = Head(b) THEN IsSubseq(Tail(a), Tail(b))
    ELSE IsSubseq(a, Tail(b))

ConfirmedClear(e) == e.op = "clear_display" /\ e.confirmed

SaveToHistoryFile(e) == e.op = "save_history_as" /\ e.path = HISTORY_FILE

----------------------------------------------------------------------------
(* C1: a confirmed clearDisplay leaves the content of the default backing  *)
(* store as it was before it, and the Transcript is empty after it.        *)
C1_ClearLeavesStoreAndEmptiesTranscript ==
    ConfirmedClear(last) => (HistData = last.snap /\ display = <<>>)

(* C2, as claimed: a deferred reply armed before a clearDisplay is skipped: *)
(* no step appends the Bot line of a send that a clear has followed.        *)
C2_ClearedReplyIsSkipped ==
    last.op = "after_callback" => ~last.stale

(* C2, amended: a clearDisplay leaves the armed replies armed, and every    *)
(* reply that fires, armed before a clear or not, appends its Bot line to   *)
(* the Transcript and, when the write succeeds, to the PersistentLog; only  *)
(* the end of the process drops the armed replies.                          *)
C2_OnlyTeardownSkipsReply ==
    [][ /\ ConfirmedClear(last') =>
              /\ Len(pending') = Len(pending)
              /\ \A i \in 1..Len(pending) : pending'[i].line = pending[i].line
        /\ last'.op = "after_callback" =>
              /\ IsPrefix(display \o Head(pending).line \o <<NL>>, display')
              /\ last'.wrote => fs'[HISTORY_FILE].data = HistData \o Head(pending).line \o <<NL>>
        /\ last'.op = "exit" => pending' = <<>>
        /\ pending' # <<>> => running'
      ]_vars

C2_Witness ==
    /\ last.op = "after_callback" /\ last.stale /\ last.wrote
    /\ contains(display, last.line)
    /\ contains(HistData, last.line)

(* C3: a send whose message is empty after trimming changes neither the     *)
(* Transcript nor the PersistentLog and arms no reply, whatever botEnabled. *)
C3_EmptySendIsNoOp ==
    [][ (last'.op = "on_send" /\ strip(last'.input) = <<>>)
            => UNCHANGED <<display, fs, pending>> ]_vars

C3_Witness ==
    /\ last.op = "on_send" /\ last.input # <<>> /\ strip(last.input) = <<>>
    /\ bot_enabled
    /\ display # <<>>

(* C4: importHistory from a path other than the default store leaves the    *)
(* PersistentLog as it was.                                                 *)
C4_ImportLeavesStore ==
    [][ (last'.op = "load_history" /\ last'.path = OTHER_FILE)
            => fs'[HISTORY_FILE] = fs[HISTORY_FILE] ]_vars

(* C5: starting the session, seeding included, never writes to the          *)
(* PersistentLog.                                                           *)
C5_SeedingIsReadOnly ==
    [][ last'.op = "init" => fs'[HISTORY_FILE] = fs[HISTORY_FILE] ]_vars

C7_StoreIsAppendOnly ==
    [][ /\ fs[HISTORY_FILE].exists => fs'[HISTORY_FILE].exists
        /\ IsPrefix(HistData, fs'[HISTORY_FILE].data) ]_vars

(* C7, amended: the same for every step but an exportHistory to a path that *)
(* names the default store; that export replaces the content of the store   *)
(* by the trimmed text of the Transcript.                                   *)
C7_AppendOnlyButExportOntoStore ==
    [][ /\ fs[HISTORY_FILE].exists => fs'[HISTORY_FILE].exists
        /\ ~SaveToHistoryFile(last') => IsPrefix(HistData, fs'[HISTORY_FILE].data)
        /\ (SaveToHistoryFile(last') /\ last'.wrote)
              => fs'[HISTORY_FILE].data = strip(display \o <<NL>>) \o <<NL>>
      ]_vars

C7_Witness ==
    /\ last.op = "after_callback" /\ last.wrote
    /\ Len(Lines(HistData)) >= 3

(* C8: in every step of the session that is not a confirmed clearDisplay,   *)
(* the previous Transcript is a prefix of the new one; a declined           *)
(* clearDisplay changes neither the Transcript nor the PersistentLog.       *)
C8_TranscriptIsAppendOnly ==
    [][ /\ (last'.op # "exit" /\ ~ConfirmedClear(last')) => IsPrefix(display, display')
        /\ (last'.op = "clear_display" /\ ~last'.confirmed) => UNCHANGED <<display, fs>>
      ]_vars

C8_Witness ==
    /\ last.op = "clear_display" /\ ~last.confirmed
    /\ display # <<>>
    /\ HistData # <<>>

(* C9: when the append to the store fails in a send or in a deferred reply, *)
(* the Transcript keeps all it held, the new line follows, the session goes *)
(* on; a later send whose append succeeds is displayed and persisted.       *)
C9_FailedAppendKeepsTranscript ==
    [][ /\ (last'.op \in {"on_send", "after_callback"} /\ last'.wfail) =>
              /\ IsPrefix(display \o last'.line \o <<NL>>, display')
              /\ fs' = fs
              /\ running'
        /\ (contains(display, SaveError) /\ last'.op = "on_send" /\ last'.wrote) =>
              /\ display' = display \o last'.line \o <<NL>>
              /\ fs'[HISTORY_FILE].data = HistData \o last'.line \o <<NL>>
      ]_vars

C9_Witness ==
    /\ last.op = "on_send" /\ last.wrote
    /\ contains(display, user_line(<<"H", "i">>) \o <<NL>> \o SaveError \o <<NL>> \o last.line)
    /\ Lines(HistData) = <<last.line>>

\* the notices that describe a failure
FailureNotices == {SaveError, system_line(CouldNotLoad)}

\* what a step has appended to the Transcript (a confirmed clear empties it first)
Appended == IF ConfirmedClear(last') THEN display' ELSE Rest(display, display')

(* C10, as claimed: every failure of a read or a write of a file appends a  *)
(* notice line that describes it to the Transcript.                         *)
C10_EveryFailureIsNoticed ==
    [][ (last'.rfail \/ last'.wfail) =>
            \E notice \in FailureNotices : contains(Appended, notice \o <<NL>>)
      ]_vars

(* C10, amended: a failed append to the store appends a "[Save error: ...]" *)
(* line to the Transcript, and a failed seeding read a System-tagged "Could *)
(* not load history" line; a failed exportHistory and a failed read of      *)
(* importHistory are shown in an error dialog and leave the Transcript as   *)
(* it was.                                                                  *)
C10_AppendAndSeedingFailuresAreNoticed ==
    [][ /\ (last'.wfail /\ last'.op # "save_history_as") =>
              contains(Appended, SaveError \o <<NL>>)
        /\ (last'.rfail /\ last'.op = "init") =>
              IsPrefix(system_line(CouldNotLoad) \o <<NL>>, display')
        /\ ((last'.rfail /\ last'.op = "load_history") \/ (last'.wfail /\ last'.op = "save_history_as")) =>
              /\ display' = display
              /\ last'.dialog = "showerror"
      ]_vars

C10_Witness ==
    /\ last.op = "save_history_as" /\ last.wfail /\ last.dialog = "showerror"
    /\ display # <<>>
    /\ ~contains(display, SaveError)


----------------------------------------------------------------------------
\* the number of times the atom c occurs in text
RECURSIVE Count(_, _)
Count(text, c) == IF text = <<>> THEN 0
                  ELSE (IF Head(text) = c THEN 1 ELSE 0) + Count(Tail(text), c)

YouTag == Head(user_line(<<>>))
BotTag == Head(bot_line(<<>>))

\* the Bot lines the inputs can give rise to
BotLines == {bot_line(strip(input)) : input \in {i \in Inputs : strip(i) # <<>>}}

SendOf(e) == e.op = "on_send" /\ strip(e.input) # <<>>

(* C11: a send of a message that is not empty after trimming appends one    *)
(* User line to the Transcript and, when the write succeeds, to the         *)
(* PersistentLog, in the send step; with botEnabled it arms one reply, and  *)
(* an armed reply fires unless the process ends first: one Bot line is      *)
(* appended to the Transcript and, when the write succeeds, to the          *)
(* PersistentLog, and the reply is disarmed, so it never fires twice.       *)
C11_SendAppendsUserLineAndOneReply ==
    /\ [][ /\ SendOf(last') =>
                /\ Count(display', YouTag) = Count(display, YouTag) + 1
                /\ Count(display', BotTag) = Count(display, BotTag)
                /\ IsPrefix(display \o user_line(strip(last'.input)) \o <<NL>>, display')
                /\ last'.wrote =>
                      fs'[HISTORY_FILE].data = HistData \o user_line(strip(last'.input)) \o <<NL>>
                /\ Len(pending') = Len(pending) + (IF bot_enabled THEN 1 ELSE 0)
           /\ last'.op = "after_callback" =>
                /\ Count(display', BotTag) = Count(display, BotTag) + 1
                /\ Count(display', YouTag) = Count(display, YouTag)
                /\ last'.wrote =>
                      /\ Count(fs'[HISTORY_FILE].data, BotTag) = Count(HistData, BotTag) + 1
                      /\ fs'[HISTORY_FILE].data = HistData \o last'.line \o <<NL>>
                /\ Len(pending') = Len(pending) - 1
           /\ last'.op \in {"on_send", "clear_display", "bot_check", "save_history_as", "exit"} =>
                Count(display', BotTag) <= Count(display, BotTag)
           /\ last'.op \in {"on_send", "clear_display", "bot_check", "load_history", "init", "exit"} =>
                Count(fs'[HISTORY_FILE].data, BotTag) = Count(HistData, BotTag)
         ]_vars
    /\ \A l \in BotLines :
          (pending # <<>> /\ Head(pending).line = l)
              ~> ((last.op = "after_callback" /\ last.line = l) \/ ~running)

C11_Witness ==
    /\ last.op = "after_callback" /\ last.wrote /\ ~last.stale
    /\ Lines(display) = <<user_line(<<"H", "i">>), last.line>>
    /\ Lines(HistData) = <<user_line(<<"H", "i">>), last.line>>
    /\ pending = <<>>

\* the lines a step has appended to the Transcript
AppendedLines == Lines(Appended)

(* C12: while no read or write has failed, every line a send, a deferred    *)
(* reply or a clear appends to the Transcript is in the PersistentLog, and  *)
(* no line that a load from a file or the seeding appends to the Transcript *)
(* is written to the PersistentLog.                                         *)
C12_AllButLoadedLinesArePersisted ==
    [][ faults' = 0 =>
          /\ (SendOf(last') \/ last'.op = "after_callback" \/ ConfirmedClear(last')) =>
                \A i \in 1..Len(AppendedLines) :
                    Count(Lines(fs'[HISTORY_FILE].data), AppendedLines[i]) >= 1
          /\ last'.op \in {"load_history", "init"} =>
                \A i \in 1..Len(AppendedLines) :
                    AppendedLines[i] # <<>> =>
                        Count(Lines(fs'[HISTORY_FILE].data), AppendedLines[i])
                            = Count(Lines(HistData), AppendedLines[i])
      ]_vars

\* the line a step writes to the store when its write succeeds
WrittenLine(e) == IF ConfirmedClear(e) THEN system_line(DisplayCleared) ELSE e.line

(* C13: the store keeps the order of the appends: after a successful append *)
(* of a line, what a read of the whole store gives (trimmed, as the seeding *)
(* reads it) is the lines it gave before, in the same order, followed by    *)
(* the new line; from an absent store, n appends give exactly the n lines.  *)
C13_AppendOrderIsKept ==
    [][ ((SendOf(last') \/ last'.op = "after_callback" \/ ConfirmedClear(last')) /\ last'.wrote) =>
            /\ Lines(strip(fs'[HISTORY_FILE].data))
                  = Lines(strip(HistData)) \o <<WrittenLine(last')>>
            /\ ~fs[HISTORY_FILE].exists => Lines(fs'[HISTORY_FILE].data) = <<WrittenLine(last')>>
      ]_vars

C13_Witness ==
    /\ last.op = "after_callback" /\ last.wrote
    /\ Lines(strip(HistData)) =
          <<user_line(<<"o", "k">>), user_line(<<"H", "i">>), bot_line(<<"o", "k">>), bot_line(<<"H", "i">>)>>

\* the rules of the reply generator as a table: predicate on the lower-cased
\* input, fixed reply
RuleHolds(k, msg) ==
    CASE k = 1 -> \E w \in {W_hello, W_hi, W_salom} : contains(msg, w)
      [] k = 2 -> \E w \in {W_ism, W_who} : contains(msg, w)
      [] k = 3 -> \E w \in {W_tayyor, W_ready} : contains(msg, w)
      [] k = 4 -> \E w \in {W_rahmat, W_thanks} : contains(msg, w)
      [] k = 5 -> msg # <<>> /\ msg[Len(msg)] = "?"
      [] OTHER -> TRUE

FixedReply(k) ==
    CASE k = 1 -> <<"Salom! Qanday yordam bera olaman?">>
      [] k = 2 -> <<"Men oddiy o'quvchi botman.">>
      [] k = 3 -> <<"Ha, tayyorman.">>
      [] k = 4 -> <<"Marhamat!">>
      [] OTHER -> <<"Bu yaxshi savol">>

EchoRule == 6

FirstRule(msg) == CHOOSE k \in 1..EchoRule : RuleHolds(k, msg) /\ \A j \in 1..(k - 1) : ~RuleHolds(j, msg)

EchoTag == "Siz aytdingiz: "

(* C14: the reply is the fixed reply of the lowest-numbered rule whose      *)
(* predicate holds on the lower-cased input, in the order greeting,         *)
(* identity, readiness, gratitude, trailing '?'; the echo reply is given    *)
(* only when none of the five holds.                                        *)
C14_FirstMatchingRuleWins ==
    last.op = "generate_bot_reply" =>
        LET k == FirstRule(lower(last.input)) IN
        /\ k < EchoRule => last.line = FixedReply(k)
        /\ k = EchoRule <=> Head(last.line) = EchoTag

C14_Witness ==
    /\ last.op = "generate_bot_reply"
    /\ contains(lower(last.input), W_hello) /\ contains(lower(last.input), W_thanks)
    /\ last.input # lower(last.input)
    /\ last.line = FixedReply(1)

(* C15: when none of the five rules holds, a message of at most 80          *)
(* characters is echoed whole after the prefix, a longer one as its first   *)
(* 77 characters and three dots; the echoed text is never longer than 80.   *)
C15_EchoIsCutAbove80 ==
    (last.op = "generate_bot_reply" /\ FirstRule(lower(last.input)) = EchoRule) =>
        LET echoed == Tail(last.line) IN
        /\ Len(last.input) <= 80 => echoed = last.input
        /\ Len(last.input) > 80 => echoed = SubSeq(last.input, 1, 77) \o <<".", ".", ".">>
        /\ Len(echoed) <= 80

C15_Witness ==
    /\ last.op = "generate_bot_reply"
    /\ Len(last.input) = 80
    /\ last.line = <<EchoTag>> \o last.input

(* C16: two confirmed clearDisplay calls in a row leave the Transcript and   *)
(* the PersistentLog as the first of them left them.                        *)
C16_ClearIsIdempotent ==
    [][ (ConfirmedClear(last) /\ ConfirmedClear(last')) => (display' = display /\ fs' = fs) ]_vars

(* C17: a start with no backing store shows no notice, leaves the           *)
(* Transcript empty and does not create the store; a start with a store     *)
(* that is empty or holds whitespace only (and can be read) does the same   *)
(* and leaves the store as it is.                                           *)
C17_AbsentOrBlankStoreIsNoError ==
    [][ (last'.op = "init" /\ (~fs[HISTORY_FILE].exists \/ (strip(HistData) = <<>> /\ ~last'.rfail))) =>
            /\ display' = <<>>
            /\ fs' = fs
            /\ ~last'.rfail /\ ~last'.wfail /\ ~last'.wrote
      ]_vars

C17_Witness ==
    /\ last.op = "init"
    /\ fs[HISTORY_FILE].exists /\ HistData # <<>> /\ strip(HistData) = <<>>
    /\ display = <<>>

\* the Bot lines of the timers, in the order the timers wait
TimerLines(timers) == [i \in 1..Len(timers) |-> timers[i].line]

(* C18: replies keep the order of their sends: a send arms its reply behind *)
(* the replies that wait, the reply that fires is the one that waited       *)
(* longest, its Bot line goes to the end of the Transcript and of the       *)
(* PersistentLog, after the User line of its send (still in the Transcript  *)
(* unless a clear came between), and no other step reorders the replies     *)
(* that wait.                                                               *)
C18_RepliesKeepSendOrder ==
    [][ /\ (SendOf(last') /\ bot_enabled) =>
              /\ pending' = Append(pending, timer(strip(last'.input)))
              /\ IsPrefix(display \o user_line(strip(last'.input)) \o <<NL>>, display')
        /\ last'.op = "after_callback" =>
              /\ last'.line = Head(pending).line
              /\ pending' = Tail(pending)
              /\ IsPrefix(display \o last'.line \o <<NL>>, display')
              /\ ~Head(pending).stale => contains(display, Head(pending).user \o <<NL>>)
              /\ last'.wrote => fs'[HISTORY_FILE].data = HistData \o last'.line \o <<NL>>
        /\ last'.op \in {"clear_display", "bot_check", "save_history_as", "load_history"} =>
              TimerLines(pending') = TimerLines(pending)
      ]_vars

C18_Witness ==
    /\ last.op = "after_callback"
    /\ Lines(display) =
          <<user_line(<<"H", "i">>), user_line(<<"o", "k">>), bot_line(<<"H", "i">>), bot_line(<<"o", "k">>)>>
    /\ Lines(HistData) = Lines(display)

(* C19: the check button is read in the send: a send with the button off    *)
(* arms no reply and appends no Bot line, a send with the button on arms    *)
(* the reply computed from its message, switching the button leaves the     *)
(* armed replies alone, and a reply that fires appends its Bot line         *)
(* whatever the button says then.                                           *)
C19_BotFlagIsReadAtSend ==
    [][ /\ (SendOf(last') /\ ~bot_enabled) =>
              /\ pending' = pending
              /\ Count(display', BotTag) = Count(display, BotTag)
        /\ (SendOf(last') /\ bot_enabled) =>
              /\ Len(pending') = Len(pending) + 1
              /\ pending'[Len(pending')].line = <<BotTag>> \o generate_bot_reply(strip(last'.input))
        /\ last'.op = "bot_check" => (pending' = pending /\ bot_enabled' # bot_enabled)
        /\ last'.op = "after_callback" =>
              /\ bot_enabled' = bot_enabled
              /\ IsPrefix(display \o Head(pending).line \o <<NL>>, display')
      ]_vars

C19_Witness ==
    /\ last.op = "after_callback" /\ ~bot_enabled
    /\ last.line = bot_line(<<"H", "i">>)
    /\ Lines(display) = <<user_line(<<"H", "i">>), last.line>>

(* C20: after a successful exportHistory the chosen file holds the lines of *)
(* the Transcript, in order (blank lines at its end are trimmed), not those *)
(* of the PersistentLog, and the Transcript is as it was; a cancelled       *)
(* export changes nothing.                                                  *)
C20_ExportWritesTranscript ==
    [][ /\ (last'.op = "save_history_as" /\ last'.wrote) =>
              LET saved == Lines(fs'[last'.path].data) IN
              /\ NonEmpty(saved) = NonEmpty(Lines(display))
              /\ display # <<>> => IsPrefix(saved, Lines(display))
        /\ last'.op = "save_history_as" => display' = display /\ pending' = pending
        /\ (last'.op = "save_history_as" /\ last'.path = Cancelled) => fs' = fs
      ]_vars

C20_Witness ==
    /\ last.op = "save_history_as" /\ last.wrote /\ last.path = OTHER_FILE
    /\ Lines(fs[OTHER_FILE].data) = <<system_line(DisplayCleared)>>
    /\ Count(HistData, YouTag) >= 1
    /\ Lines(display) = <<system_line(DisplayCleared)>>

====
